---- MODULE Spec2Model ----
(***************************************************************************)
(* A model of the async-to-flow transformer of src/src/index.ts.           *)
(*                                                                         *)
(* Syntax nodes are records.  Text (identifier.text, node.getText()) is a  *)
(* sequence of tokens, so that startsWith / includes / === on text are     *)
(* computed as prefix / contiguous-subsequence / equality tests.           *)
(***************************************************************************)
EXTENDS Naturals, Sequences, FiniteSets, TLC

VARIABLES
    pc,                          \* position of the running invocation
    options,                     \* the Options object given to createTransformer
    transformed,                 \* let transformed (index.ts:58)
    className,                   \* let className (index.ts:59)
    functionsToAddDecoratorsTo,  \* const functionsToAddDecoratorsTo (index.ts:67)
    enclosing,                   \* names of the classes the traversal is inside of, innermost last
    node,                        \* the node handed to the operation that ran last
    ret,                         \* what that operation returned
    path,                        \* the branch of the visitor that produced ret
    result,                      \* what visitSourceFile returned
    srcHasTrigger,               \* history: the unit read so far contains a trigger
    newFunctionBlock,            \* the value createNewFunctionBlock returned
    applied                      \* successive results of ensureDecorators

vars == <<pc, options, transformed, className, functionsToAddDecoratorsTo, enclosing,
          node, ret, path, result, srcHasTrigger, newFunctionBlock, applied>>

-----------------------------------------------------------------------------
(* Bounds *)

MaxNodes == 5      \* nodes of a function body drawn for the body rewrite
MaxParams == 1     \* parameters of a drawn function value
MaxMods == 3       \* modifiers of a drawn member declaration
MaxClassMods == 1  \* modifiers of a drawn class declaration
MaxDepth == 2      \* classes nested inside one another

-----------------------------------------------------------------------------
(* Text *)

autoFlow == <<"autoFlow">>
modelFlow == <<"modelFlow">>
autoModel == <<"autoModel">>

StartsWith(s, p) == Len(s) >= Len(p) /\ SubSeq(s, 1, Len(p)) = p

Includes(s, p) ==
    \E i \in 1..(Len(s) + 1) :
        /\ i + Len(p) - 1 <= Len(s)
        /\ SubSeq(s, i, i + Len(p) - 1) = p

SeqsUpTo(S, n) == UNION {[1..k -> S] : k \in 0..n}

-----------------------------------------------------------------------------
(* Expressions and modifiers *)

mobxNamespaceImport == "mobxKs"

Identifier(text) == [text |-> text, t |-> "Identifier"]

createMobxKsPropertyAccessExpression(mobxKsNamespaceImport, name) ==
    [t |-> "PropertyAccessExpression", name |-> name, ns |-> mobxKsNamespaceImport]

_asyncExpression == createMobxKsPropertyAccessExpression(mobxNamespaceImport, <<"_async">>)
_awaitExpression == createMobxKsPropertyAccessExpression(mobxNamespaceImport, <<"_await">>)
modelFlowExpression == createMobxKsPropertyAccessExpression(mobxNamespaceImport, modelFlow)
modelExpression == createMobxKsPropertyAccessExpression(mobxNamespaceImport, <<"model">>)

AsyncKeyword == [kind |-> "AsyncKeyword", expression |-> [t |-> "none"]]
PublicKeyword == [kind |-> "PublicKeyword", expression |-> [t |-> "none"]]
createDecorator(expression) == [kind |-> "Decorator", expression |-> expression]
DecoratorCall(callee, arg) ==
    createDecorator([t |-> "CallExpression", callee |-> callee, arg |-> arg])

ExpressionText(e) ==
    CASE e.t = "Identifier" -> e.text
      [] e.t = "PropertyAccessExpression" -> <<e.ns, ".">> \o e.name
      [] e.t = "CallExpression" ->
            (IF e.callee.t = "Identifier" THEN e.callee.text
             ELSE <<e.callee.ns, ".">> \o e.callee.name) \o <<"(", "\"">> \o e.arg \o <<"\"", ")">>
      [] OTHER -> <<>>

ModifierText(x) ==
    CASE x.kind = "Decorator" -> <<"@">> \o ExpressionText(x.expression)
      [] x.kind = "AsyncKeyword" -> <<"async">>
      [] OTHER -> <<"public">>

isSpecificDecorator(decorator, name) ==
    /\ decorator.kind = "Decorator"
    /\ decorator.expression.t = "Identifier"
    /\ decorator.expression.text = name

hasDecorator(decorators, name) ==
    Len(SelectSeq(decorators, LAMBDA x : isSpecificDecorator(x, name))) # 0

-----------------------------------------------------------------------------
(* Function bodies: trees of nodes [t, c], c the sequence of children *)

Leaf == [t |-> "Identifier", c |-> <<>>]
Unary(k, a) == [t |-> k, c |-> <<a>>]
Binary(a, b) == [t |-> "BinaryExpression", c |-> <<a, b>>]

FunctionLikeKinds ==
    {"ArrowFunction", "FunctionExpression", "MethodDeclaration", "GetAccessor"}

isFunctionLike(n) == n.t \in FunctionLikeKinds
isAwaitExpression(n) == n.t = "AwaitExpression"

createYieldDelegate(callee, e) ==
    [t |-> "YieldExpression",
     c |-> <<[t |-> "CallExpression", callee |-> callee, c |-> <<e>>]>>]

\* replaceYieldAndCheckNested without the isFunctionLike stop (index.ts:252-255).
RECURSIVE replaceYieldDescendingIntoNested(_)
replaceYieldDescendingIntoNested(n) ==
    IF isAwaitExpression(n) THEN createYieldDelegate(_awaitExpression, n.c[1])
    ELSE [n EXCEPT !.c = [i \in DOMAIN n.c |-> replaceYieldDescendingIntoNested(n.c[i])]]

RECURSIVE replaceYieldAndCheckNested(_)
replaceYieldAndCheckNested(n) ==
    IF isAwaitExpression(n) THEN createYieldDelegate(_awaitExpression, n.c[1])
    ELSE IF isFunctionLike(n) THEN n
    ELSE [n EXCEPT !.c = [i \in DOMAIN n.c |-> replaceYieldAndCheckNested(n.c[i])]]

createNewFunctionBlock(fn) ==
    [fn EXCEPT !.body = replaceYieldAndCheckNested(fn.body)]

-----------------------------------------------------------------------------
(* Function values *)

Parameter(name, type) == [name |-> name, type |-> type]

FunctionValue(kind, modifiers, asteriskToken, parameters, body) ==
    [t |-> kind, body |-> body, modifiers |-> modifiers,
     asteriskToken |-> asteriskToken, parameters |-> parameters]

isArrowFunction(n) == n.t = "ArrowFunction"
isFunctionExpression(n) == n.t = "FunctionExpression"

hasAsyncModifier(modifiers) ==
    \E i \in DOMAIN modifiers : modifiers[i].kind = "AsyncKeyword"

isAsyncFunction(n) ==
    /\ n.t \in {"FunctionExpression", "ArrowFunction", "MethodDeclaration"}
    /\ ~n.asteriskToken
    /\ hasAsyncModifier(n.modifiers)

ThrownError == [t |-> "Error"]
isError(v) == v.t = "Error"

\* transformFunction without the isAsyncFunction check (index.ts:322-328).
transformFunctionUnchecked(fn, asyncIdentifier, clsName) ==
    LET hasThisParam == \E i \in DOMAIN fn.parameters : fn.parameters[i].name = "this"
        additionalParams ==
            IF hasThisParam THEN <<>> ELSE <<Parameter("this", clsName)>>
    IN  [t |-> "CallExpression",
         callee |-> asyncIdentifier,
         arguments |->
            <<FunctionValue("FunctionExpression", <<>>, TRUE,
                            additionalParams \o fn.parameters, fn.body)>>]

transformFunction(fn, asyncIdentifier, clsName) ==
    IF ~isAsyncFunction(fn) THEN ThrownError
    ELSE
        LET hasThisParam == \E i \in DOMAIN fn.parameters : fn.parameters[i].name = "this"
            additionalParams ==
                IF hasThisParam THEN <<>> ELSE <<Parameter("this", clsName)>>
        IN  [t |-> "CallExpression",
             callee |-> asyncIdentifier,
             arguments |->
                <<FunctionValue("FunctionExpression", <<>>, TRUE,
                                additionalParams \o fn.parameters, fn.body)>>]

-----------------------------------------------------------------------------
(* Modifier lists *)

\* ensureDecorators pushing the flow decorator instead of unshifting it
\* (index.ts:415).
ensureDecoratorsAppending(modifiers, flowExpression) ==
    LET res == SelectSeq(modifiers,
                         LAMBDA x : /\ x.kind # "AsyncKeyword"
                                    /\ ~isSpecificDecorator(x, autoFlow))
    IN  IF ~hasDecorator(res, modelFlow)
        THEN res \o <<createDecorator(flowExpression)>>
        ELSE res

ensureDecorators(modifiers, flowExpression) ==
    LET res == SelectSeq(modifiers,
                      LAMBDA x : /\ x.kind # "AsyncKeyword"
                                 /\ ~isSpecificDecorator(x, autoFlow))
    IN  IF ~hasDecorator(res, modelFlow)
        THEN <<createDecorator(flowExpression)>> \o res
        ELSE res

-----------------------------------------------------------------------------
(* Inputs *)

None == [t |-> "none"]

UnaryKinds == {"AwaitExpression", "ParenthesizedExpression", "ArrowFunction", "MethodDeclaration"}

\* The body trees of exactly n nodes.
TreesOfSize[n \in 1..(MaxNodes + 1)] ==
    IF n = 1 THEN {Leaf}
    ELSE {Unary(k, a) : k \in UnaryKinds, a \in TreesOfSize[n - 1]}
         \cup UNION {{Binary(a, b) : a \in TreesOfSize[i], b \in TreesOfSize[n - 1 - i]} :
                     i \in 1..(n - 2)}

Bodies == UNION {TreesOfSize[n] : n \in 1..MaxNodes}

ParameterLists ==
    SeqsUpTo({Parameter("this", "Explicit"), Parameter("input", "")}, MaxParams)

AsyncQualifiers == {<<>>, <<AsyncKeyword>>}

FunctionValues(bodies) ==
    {FunctionValue("ArrowFunction", m, FALSE, p, b) :
        m \in AsyncQualifiers, p \in ParameterLists, b \in bodies}
    \cup {FunctionValue("FunctionExpression", m, a, p, b) :
        m \in AsyncQualifiers, a \in BOOLEAN, p \in ParameterLists, b \in bodies}

-----------------------------------------------------------------------------
(* The conversion of one function value: createNewFunctionBlock, then      *)
(* transformFunction, as the visitor calls them (index.ts:127-136,204-208) *)

InitBody ==
    /\ pc = "fn"
    /\ node \in FunctionValues(Bodies)
    /\ className = "Test"
    /\ options = None
    /\ transformed = FALSE
    /\ functionsToAddDecoratorsTo = {}
    /\ enclosing = <<>>
    /\ ret = None
    /\ path = "none"
    /\ result = None
    /\ srcHasTrigger = FALSE
    /\ newFunctionBlock = None
    /\ applied = <<>>

CreateNewFunctionBlock ==
    /\ pc = "fn"
    /\ newFunctionBlock' = createNewFunctionBlock(node)
    /\ pc' = "block"
    /\ UNCHANGED <<options, transformed, className, functionsToAddDecoratorsTo, enclosing,
                   node, ret, path, result, srcHasTrigger, applied>>

TransformFunction ==
    /\ pc = "block"
    /\ ret' = transformFunction(newFunctionBlock, _asyncExpression, className)
    /\ pc' = IF isError(ret') THEN "thrown" ELSE "converted"
    /\ UNCHANGED <<options, transformed, className, functionsToAddDecoratorsTo, enclosing,
                   node, path, result, srcHasTrigger, newFunctionBlock, applied>>

NextBody == CreateNewFunctionBlock \/ TransformFunction

SpecBody == InitBody /\ [][NextBody]_vars

\* An await expression of n that is not inside a nested function-like node.
RECURSIVE HasOwnAwait(_)
HasOwnAwait(n) ==
    /\ ~isFunctionLike(n)
    /\ \/ isAwaitExpression(n)
       \/ \E i \in DOMAIN n.c : HasOwnAwait(n.c[i])

\* The outermost function-like nodes of n, in source order.
RECURSIVE NestedFunctions(_)
NestedFunctions(n) ==
    IF isFunctionLike(n) THEN <<n>>
    ELSE IF n.c = <<>> THEN <<>>
    ELSE IF Len(n.c) = 1 THEN NestedFunctions(n.c[1])
    ELSE NestedFunctions(n.c[1]) \o NestedFunctions(n.c[2])

RECURSIVE HasAwait(_)
HasAwait(n) == isAwaitExpression(n) \/ \E i \in DOMAIN n.c : HasAwait(n.c[i])

ConvertedBody == ret.arguments[1].body

\* C2: after createNewFunctionBlock and transformFunction the body of the
\* converted function holds no await expression outside nested functions.
C2_NoUnconvertedAwait ==
    pc = "converted" => ~HasOwnAwait(ConvertedBody)

\* C3: the nested function-like nodes of a converted function's body are the
\* nested function-like nodes of the input body, unchanged and in order, so an
\* await inside a nested function is never rewritten.
C3_NestedFunctionsUntouched ==
    /\ pc \in {"block", "converted"} =>
            NestedFunctions(newFunctionBlock.body) = NestedFunctions(node.body)
    /\ pc = "converted" => NestedFunctions(ConvertedBody) = NestedFunctions(node.body)

\* The function-like nodes the rewrite of n comes upon: those not inside the
\* operand of an await expression.
RECURSIVE VisitedNestedFunctions(_)
VisitedNestedFunctions(n) ==
    IF isFunctionLike(n) THEN {n}
    ELSE IF isAwaitExpression(n) THEN {}
    ELSE UNION {VisitedNestedFunctions(n.c[i]) : i \in DOMAIN n.c}

C3_Witness ==
    /\ pc = "converted"
    /\ \E f \in VisitedNestedFunctions(node.body) : HasAwait(f)

-----------------------------------------------------------------------------
(* ensureDecorators applied to a modifier list, and again to its result *)

MemberModifiers ==
    {AsyncKeyword, PublicKeyword,
     createDecorator(Identifier(autoFlow)),
     createDecorator(Identifier(modelFlow)),
     createDecorator(Identifier(<<"observable">>)),
     createDecorator(modelFlowExpression)}

InitDecorators ==
    /\ pc = "modifiers"
    /\ node \in SeqsUpTo(MemberModifiers, MaxMods)
    /\ applied = <<>>
    /\ className = ""
    /\ options = None
    /\ transformed = FALSE
    /\ functionsToAddDecoratorsTo = {}
    /\ enclosing = <<>>
    /\ ret = None
    /\ path = "none"
    /\ result = None
    /\ srcHasTrigger = FALSE
    /\ newFunctionBlock = None

EnsureDecorators ==
    /\ pc = "modifiers"
    /\ Len(applied) < 2
    /\ applied' = Append(applied,
                         ensureDecorators(IF applied = <<>> THEN node ELSE applied[Len(applied)],
                                          modelFlowExpression))
    /\ UNCHANGED <<pc, options, transformed, className, functionsToAddDecoratorsTo, enclosing,
                   node, ret, path, result, srcHasTrigger, newFunctionBlock>>

NextDecorators == EnsureDecorators

SpecDecorators == InitDecorators /\ [][NextDecorators]_vars

\* A decorator naming the flow annotation: @modelFlow or @<ns>.modelFlow.
isFlowDecorator(x) ==
    /\ x.kind = "Decorator"
    /\ \/ isSpecificDecorator(x, modelFlow)
       \/ x.expression = modelFlowExpression

FlowDecoratorCount(modifiers) == Len(SelectSeq(modifiers, isFlowDecorator))

\* C6: ensureDecorators applied to its own output returns that output, and
\* its result never holds more than one flow decorator.
C6_Idempotent ==
    /\ Len(applied) = 2 => applied[2] = applied[1]
    /\ \A i \in DOMAIN applied : FlowDecoratorCount(applied[i]) <= 1

-----------------------------------------------------------------------------
(* Declarations *)

ClassNode(kind, modifiers, name) == [t |-> kind, name |-> name, modifiers |-> modifiers]

createPropertyDeclaration(modifiers, name, initializer) ==
    [t |-> "PropertyDeclaration", name |-> name, modifiers |-> modifiers,
     initializer |-> initializer]

MethodDeclaration(modifiers, name, asteriskToken, parameters, body) ==
    [t |-> "MethodDeclaration", name |-> name, body |-> body, modifiers |-> modifiers,
     asteriskToken |-> asteriskToken, parameters |-> parameters]

Call(callee, arguments) ==
    [t |-> "CallExpression", expression |-> Identifier(callee), arguments |-> arguments]

isClassDeclaration(n) == n.t = "ClassDeclaration"
isPropertyDeclaration(n) == n.t = "PropertyDeclaration"
isMethodDeclaration(n) == n.t = "MethodDeclaration"
isCallExpression(n) == n.t = "CallExpression"

fileName == <<"src", "/", "Test", ".ts">>

\* A name-derivation function a caller may pass: the file's base name.
generateModelNameFromFilename(f) == <<f[Len(f) - 1]>>

transformPropertyDeclaration(n, functionBlock, flowExpression) ==
    [n EXCEPT !.modifiers = ensureDecorators(n.modifiers, flowExpression),
              !.initializer = functionBlock]

-----------------------------------------------------------------------------
(* The visitor (index.ts:69-215).  st holds the variables it closes over;  *)
(* the value is the node it returns with those variables as it leaves them *)

VisitorState(t, c, f) == [transformed |-> t, className |-> c, functionsToAddDecoratorsTo |-> f]

Returned(r, st, how) == [ret |-> r, path |-> how, st |-> st]
Thrown(st, how) == [ret |-> ThrownError, path |-> how, st |-> st]

\* index.ts:73-75: the first modifier whose text includes "autoModel" (0: none).
findAutoModelDecorator(modifiers) ==
    LET hits == {i \in DOMAIN modifiers : Includes(ModifierText(modifiers[i]), autoModel)}
    IN  IF hits = {} THEN 0 ELSE CHOOSE i \in hits : \A j \in hits : i <= j

RemoveAt(s, i) == SubSeq(s, 1, i - 1) \o SubSeq(s, i + 1, Len(s))

\* index.ts:70-102, then the default descent of line 214.
visitClassDeclaration(n, opts, st) ==
    LET name == n.name
        autoModelDecorator == findAutoModelDecorator(n.modifiers)
        modelName == IF opts.generateModelNameFromFilename
                     THEN generateModelNameFromFilename(fileName)
                     ELSE fileName
    IN  IF autoModelDecorator # 0
        THEN Returned([n EXCEPT !.modifiers =
                            RemoveAt(n.modifiers, autoModelDecorator)
                            \o <<DecoratorCall(modelExpression, modelName)>>],
                      VisitorState(TRUE, name, st.functionsToAddDecoratorsTo),
                      "autoModel")
        ELSE Returned(n, VisitorState(st.transformed, name, st.functionsToAddDecoratorsTo),
                      "descent")

isTriggerCall(e) ==
    /\ isCallExpression(e)
    /\ e.expression.t = "Identifier"
    /\ StartsWith(e.expression.text, autoFlow)

isFunctionValue(e) == isArrowFunction(e) \/ isFunctionExpression(e)

\* index.ts:192-212, then the default descent of line 214.
visitDecoratedProperty(n, st) ==
    IF /\ hasDecorator(n.modifiers, autoFlow)
       /\ n.initializer # None
       /\ isFunctionValue(n.initializer)
    THEN LET st1 == [st EXCEPT !.transformed = TRUE]
             newFn == createNewFunctionBlock(n.initializer)
             call == transformFunction(newFn, _asyncExpression, st.className)
         IN  IF isError(call) THEN Thrown(st1, "decorated")
             ELSE Returned(transformPropertyDeclaration(n, call, modelFlowExpression),
                           st1, "decorated")
    ELSE Returned(n, st, "descent")

\* index.ts:104-163, then 192-214.
visitPropertyDeclaration(n, st) ==
    LET e == n.initializer
        st1 == IF isTriggerCall(e)
               THEN [st EXCEPT !.functionsToAddDecoratorsTo = @ \cup {n.name}]
               ELSE st
    IN  IF isTriggerCall(e) /\ e.arguments = <<>>
        THEN Thrown(st1, "noArgument")            \* isArrowFunction(undefined)
        ELSE IF isTriggerCall(e) /\ isFunctionValue(e.arguments[1])
        THEN LET st2 == [st1 EXCEPT !.transformed = TRUE]
                 call == transformFunction(createNewFunctionBlock(e.arguments[1]),
                                           _asyncExpression, st.className)
             IN  IF isError(call) THEN Thrown(st2, "wrapper")
                 ELSE Returned(transformPropertyDeclaration(
                                    [n EXCEPT !.initializer = call], call, modelFlowExpression),
                               st2, "wrapper")
        ELSE IF n.name \in st1.functionsToAddDecoratorsTo
        THEN Returned(transformPropertyDeclaration(n, n.initializer, modelFlowExpression),
                      st1, "posthoc")
        ELSE visitDecoratedProperty(n, st1)

\* index.ts:165-190, then 192-214.
visitMethodDeclaration(n, st) ==
    IF hasDecorator(n.modifiers, autoFlow) /\ n.body # None
    THEN LET functionExpression ==
                FunctionValue("FunctionExpression", n.modifiers, n.asteriskToken,
                              n.parameters, n.body)
         IN  visitDecoratedProperty(
                createPropertyDeclaration(n.modifiers, n.name, functionExpression), st)
    ELSE Returned(n, st, "descent")

visitor(n, opts, st) ==
    CASE isClassDeclaration(n) -> visitClassDeclaration(n, opts, st)
      [] isPropertyDeclaration(n) -> visitPropertyDeclaration(n, st)
      [] isMethodDeclaration(n) -> visitMethodDeclaration(n, st)
      [] OTHER -> Returned(n, st, "descent")

-----------------------------------------------------------------------------
(* The units the traversal reads *)

ClassNames == {"A", "B"}
MemberNames == {"fn", "load"}

ClassModifiers ==
    {createDecorator(Identifier(autoModel)),
     createDecorator(Identifier(<<"autoModel", "Base">>)),
     DecoratorCall(Identifier(<<"register">>), autoModel),
     createDecorator(Identifier(<<"observer">>))}

ClassDeclarations ==
    {ClassNode("ClassDeclaration", m, c) :
        m \in SeqsUpTo(ClassModifiers, MaxClassMods), c \in ClassNames}

ClassExpressions == {ClassNode("ClassExpression", <<>>, c) : c \in ClassNames}

SampleBodies == {Leaf, Unary("AwaitExpression", Leaf)}

\* A method body that declares a class; the class is drawn when the traversal
\* reaches it.
ClassDeclaringBody == Unary("Block", [t |-> "ClassLikeDeclaration", c |-> <<>>])

SampleFunction ==
    FunctionValue("ArrowFunction", <<AsyncKeyword>>, FALSE, <<Parameter("input", "")>>,
                  Unary("AwaitExpression", Leaf))

SampleFunctions ==
    {FunctionValue(k, m, FALSE, p, b) :
        k \in {"ArrowFunction", "FunctionExpression"}, m \in AsyncQualifiers,
        p \in ParameterLists, b \in SampleBodies}

Initializers ==
    {None, Identifier(<<"helper">>)}
    \cup SampleFunctions
    \cup {Call(autoFlow, a) :
            a \in {<<>>, <<Identifier(<<"helper">>)>>} \cup {<<f>> : f \in SampleFunctions}}
    \cup {Call(c, <<SampleFunction>>) : c \in {<<"autoFlow", "Action">>, <<"flow">>}}

TriggerModifierLists == {<<>>, <<createDecorator(Identifier(autoFlow))>>}

PropertyDeclarations ==
    {createPropertyDeclaration(m, n, i) :
        m \in TriggerModifierLists, n \in MemberNames, i \in Initializers}

MethodDeclarations ==
    {MethodDeclaration(m \o q, n, a, p, b) :
        m \in TriggerModifierLists, q \in AsyncQualifiers, n \in MemberNames, a \in BOOLEAN,
        p \in ParameterLists, b \in SampleBodies \cup {None}}
    \cup {MethodDeclaration(<<>>, n, FALSE, <<>>, ClassDeclaringBody) : n \in MemberNames}

\* Members under every modifier list.
VisitorModifiers ==
    {AsyncKeyword,
     createDecorator(Identifier(autoFlow)),
     createDecorator(Identifier(modelFlow)),
     createDecorator(Identifier(<<"observable">>))}

ModifierLists == SeqsUpTo(VisitorModifiers, MaxMods)

AnnotatedProperties ==
    {createPropertyDeclaration(m, n, i) :
        m \in ModifierLists, n \in MemberNames,
        i \in {SampleFunction, Call(autoFlow, <<SampleFunction>>),
               Call(autoFlow, <<Identifier(<<"helper">>)>>)}}

AnnotatedMethods ==
    {MethodDeclaration(m, n, FALSE, <<Parameter("input", "")>>, Unary("AwaitExpression", Leaf)) :
        m \in ModifierLists, n \in MemberNames}

-----------------------------------------------------------------------------
(* visitSourceFile (index.ts:30-226): one traversal of one unit *)

Init ==
    /\ pc = "scanning"
    /\ options \in {[generateModelNameFromFilename |-> b] : b \in BOOLEAN}
    /\ transformed = FALSE
    /\ className = ""
    /\ functionsToAddDecoratorsTo = {}
    /\ enclosing = <<>>
    /\ node = None
    /\ ret = None
    /\ path = "none"
    /\ result = None
    /\ srcHasTrigger = FALSE
    /\ newFunctionBlock = None
    /\ applied = <<>>

\* The triggers a unit may contain: @autoModel on a class, @autoFlow on a
\* property or method, a property initialised by a call of autoFlow...
isTrigger(n) ==
    \/ n.t \in {"ClassDeclaration", "ClassExpression"}
            /\ hasDecorator(n.modifiers, autoModel)
    \/ n.t \in {"PropertyDeclaration", "MethodDeclaration"}
            /\ hasDecorator(n.modifiers, autoFlow)
    \/ isPropertyDeclaration(n) /\ isTriggerCall(n.initializer)

\* The visitor is called on n.
Visit(n) ==
    LET r == visitor(n, options, VisitorState(transformed, className, functionsToAddDecoratorsTo))
    IN  /\ node' = n
        /\ ret' = r.ret
        /\ path' = r.path
        /\ transformed' = r.st.transformed
        /\ className' = r.st.className
        /\ functionsToAddDecoratorsTo' = r.st.functionsToAddDecoratorsTo
        /\ pc' = IF isError(r.ret) THEN "thrown" ELSE "visited"
        /\ srcHasTrigger' = (srcHasTrigger \/ isTrigger(n))
        /\ UNCHANGED <<options, result, newFunctionBlock, applied>>

\* A class is met among the statements of the unit, or in the body of a method
\* the visitor has just descended into (line 214).
VisitClass(classes) ==
    /\ Len(enclosing) < MaxDepth
    /\ \/ pc = "scanning" /\ enclosing = <<>>
       \/ /\ pc = "visited"
          /\ path = "descent"
          /\ isMethodDeclaration(node)
          /\ node.body = ClassDeclaringBody
    /\ \E n \in classes :
        /\ Visit(n)
        /\ enclosing' = Append(enclosing, n.name)

\* A member of the innermost class is met.
VisitMember(members) ==
    /\ pc = "scanning"
    /\ enclosing # <<>>
    /\ \E n \in members : Visit(n)
    /\ UNCHANGED enclosing

VisitClassDeclaration == VisitClass(ClassDeclarations)
VisitClassExpression == VisitClass(ClassExpressions)
VisitPropertyDeclaration == VisitMember(PropertyDeclarations)
VisitMethodDeclaration == VisitMember(MethodDeclarations)

\* visitEachChild takes the node the visitor returned and goes on.
Resume ==
    /\ pc = "visited"
    /\ pc' = "scanning"
    /\ node' = None
    /\ ret' = None
    /\ path' = "none"
    /\ UNCHANGED <<options, transformed, className, functionsToAddDecoratorsTo, enclosing,
                   result, srcHasTrigger, newFunctionBlock, applied>>

\* The traversal returns from the members of the innermost class.
LeaveClass ==
    /\ pc = "scanning"
    /\ enclosing # <<>>
    /\ enclosing' = SubSeq(enclosing, 1, Len(enclosing) - 1)
    /\ UNCHANGED <<pc, options, transformed, className, functionsToAddDecoratorsTo,
                   node, ret, path, result, srcHasTrigger, newFunctionBlock, applied>>

\* index.ts:217-225
Return ==
    /\ pc = "scanning"
    /\ enclosing = <<>>
    /\ pc' = "done"
    /\ result' = IF transformed
                 THEN [unit |-> "convertToFlowResult", importFlowStatement |-> TRUE]
                 ELSE [unit |-> "source", importFlowStatement |-> FALSE]
    /\ UNCHANGED <<options, transformed, className, functionsToAddDecoratorsTo, enclosing,
                   node, ret, path, srcHasTrigger, newFunctionBlock, applied>>

Next ==
    \/ VisitClassDeclaration
    \/ VisitClassExpression
    \/ VisitPropertyDeclaration
    \/ VisitMethodDeclaration
    \/ Resume
    \/ LeaveClass
    \/ Return

Spec == Init /\ [][Next]_vars

\* The same traversal over one plain class whose members carry every
\* modifier list.
VisitPlainClass == VisitClass({ClassNode("ClassDeclaration", <<>>, c) : c \in ClassNames})
VisitAnnotatedProperty == VisitMember(AnnotatedProperties)
VisitAnnotatedMethod == VisitMember(AnnotatedMethods)

NextAnnotated ==
    \/ VisitPlainClass
    \/ VisitAnnotatedProperty
    \/ VisitAnnotatedMethod
    \/ Resume
    \/ LeaveClass
    \/ Return

SpecAnnotated == Init /\ [][NextAnnotated]_vars

-----------------------------------------------------------------------------
(* Properties of the traversal *)

isMember(n) == isPropertyDeclaration(n) \/ isMethodDeclaration(n)

EnclosingClass == enclosing[Len(enclosing)]

\* The visitor handed a function value of node to transformFunction.
ReachedConversion == path \in {"wrapper", "decorated"}

\* That function value, as it stands in the unit.
ConversionTarget ==
    IF isMethodDeclaration(node) THEN node
    ELSE IF path = "wrapper" THEN node.initializer.arguments[1]
    ELSE node.initializer

hasThisParameter(parameters) == \E i \in DOMAIN parameters : parameters[i].name = "this"

\* C1: a unit with no trigger annotation and no trigger-wrapper call is
\* returned as it was given, without the injected import.
C1_NoOpGuarantee ==
    (pc = "done" /\ ~srcHasTrigger) =>
        result = [unit |-> "source", importFlowStatement |-> FALSE]

\* C4: the parameters of a converted function are the original ones, preceded
\* by one `this` parameter typed to the class enclosing the converted member
\* when the original list has no `this`, and by nothing when it has one.
C4_ThisParameterOfEnclosingClass ==
    (pc = "visited" /\ ReachedConversion) =>
        ret.initializer.arguments[1].parameters =
            IF hasThisParameter(ConversionTarget.parameters)
            THEN ConversionTarget.parameters
            ELSE <<Parameter("this", EnclosingClass)>> \o ConversionTarget.parameters

\* The decorated declarations of C5: `@autoFlow async fn(...)` and
\* `@autoFlow fn = async ...`.
isDecoratedAsync(n) ==
    /\ isMember(n)
    /\ hasDecorator(n.modifiers, autoFlow)
    /\ \/ isMethodDeclaration(n) /\ n.body # None /\ isAsyncFunction(n)
       \/ /\ isPropertyDeclaration(n)
          /\ isFunctionValue(n.initializer)
          /\ isAsyncFunction(n.initializer)

NoTriggerLeft(modifiers) ==
    \A i \in DOMAIN modifiers :
        /\ modifiers[i].kind # "AsyncKeyword"
        /\ ~isSpecificDecorator(modifiers[i], autoFlow)

\* C5 as claimed: whatever else the declaration carries, the output is a
\* property whose first modifier is the flow decorator, with no @autoFlow and
\* no async left.
C5_FlowDecoratorFirst ==
    (pc = "visited" /\ isDecoratedAsync(node)) =>
        /\ isPropertyDeclaration(ret)
        /\ ret.modifiers # <<>>
        /\ isFlowDecorator(ret.modifiers[1])
        /\ NoTriggerLeft(ret.modifiers)

\* C5 amended: the output is a property with no @autoFlow and no async left;
\* its first modifier is the injected flow decorator when the declaration
\* carried no @modelFlow decorator, and otherwise nothing is added to the
\* modifiers that remain.
C5_FlowDecoratorFirstUnlessPresent ==
    (pc = "visited" /\ isDecoratedAsync(node)) =>
        LET kept == SelectSeq(node.modifiers,
                              LAMBDA x : /\ x.kind # "AsyncKeyword"
                                         /\ ~isSpecificDecorator(x, autoFlow))
        IN  /\ isPropertyDeclaration(ret)
            /\ NoTriggerLeft(ret.modifiers)
            /\ FlowDecoratorCount(ret.modifiers) >= 1
            /\ ~hasDecorator(node.modifiers, modelFlow) =>
                    ret.modifiers = <<createDecorator(modelFlowExpression)>> \o kept
            /\ hasDecorator(node.modifiers, modelFlow) => ret.modifiers = kept

C5_Witness ==
    /\ pc = "visited"
    /\ isDecoratedAsync(node)
    /\ isMethodDeclaration(node)
    /\ path = "decorated"
    /\ Len(node.modifiers) = 3
    /\ node.modifiers[1] = createDecorator(Identifier(<<"observable">>))
    /\ ret.modifiers[1] = createDecorator(modelFlowExpression)

\* C7: the modifiers of a class declaration change exactly when one of them
\* is the decorator named autoModel; then that decorator is removed, the
\* others are kept in order and <ns>.model(S) is appended, S being the
\* derived name when the option is given and the file name otherwise.
C7_ClassIdentityRewrite ==
    (pc = "visited" /\ isClassDeclaration(node)) =>
        LET exact == {i \in DOMAIN node.modifiers :
                        isSpecificDecorator(node.modifiers[i], autoModel)}
            first == CHOOSE i \in exact : \A j \in exact : i <= j
            S == IF options.generateModelNameFromFilename
                 THEN generateModelNameFromFilename(fileName)
                 ELSE fileName
        IN  /\ (ret.modifiers # node.modifiers) <=> (exact # {})
            /\ exact # {} =>
                    ret.modifiers = RemoveAt(node.modifiers, first)
                                    \o <<DecoratorCall(modelExpression, S)>>

\* A property initialised by a trigger call whose first argument is no
\* function value.
isUnsupportedForm(n) ==
    /\ isPropertyDeclaration(n)
    /\ isTriggerCall(n.initializer)
    /\ n.initializer.arguments # <<>>
    /\ ~isFunctionValue(n.initializer.arguments[1])

\* C8: a property of the unsupported form stands in the output as it was
\* read, also when other declarations of its unit are rewritten.  (Once
\* transformed is set the unit returned is the rewritten one, which holds
\* what the visitor returned for the property.)
C8_UnsupportedFormUntouched ==
    (pc = "visited" /\ isUnsupportedForm(node) /\ transformed) => ret = node

\* C9: when transformFunction is handed a function value that is not async,
\* the invocation throws, and an invocation that threw returns no unit.
C9_ContractViolationThrows ==
    /\ (pc \in {"visited", "thrown"} /\ ReachedConversion
            /\ ~isAsyncFunction(ConversionTarget)) => pc = "thrown"
    /\ pc = "thrown" => result = None

C9_Witness ==
    /\ pc = "thrown"
    /\ path = "decorated"
    /\ isMethodDeclaration(node)
    /\ ~hasAsyncModifier(node.modifiers)
    /\ functionsToAddDecoratorsTo # {}
    /\ result = None

\* C10: in a unit that is returned rewritten, what stands in the output for a
\* member does not depend on the declarations visited before it: it is what
\* the visitor returns for that member, under the class name in scope, when
\* nothing was visited before, and a member without a trigger is output as
\* it was read.
C10_RewritesAreLocal ==
    (pc = "visited" /\ isMember(node) /\ transformed) =>
        /\ ret = visitor(node, options, VisitorState(FALSE, className, {})).ret
        /\ ~isTrigger(node) => ret = node

====
